---- MODULE Spec2Model ----
(***************************************************************************)
(* Model of enforce_conventional_commits.py: the conventional-commit       *)
(* classifier, the touched-path resolver and the hook's entry point.       *)
(*                                                                         *)
(* A Python str is a sequence of one-character strings; a pathlib.Path is  *)
(* a record [root, parts]; a compiled regular expression is the set of     *)
(* positions its sub-patterns can reach.                                   *)
(***************************************************************************)
EXTENDS Integers, Sequences, FiniteSets, TLC

VARIABLES
    pc,                 \* position of the running function
    types,              \* args.types / the `types` parameter
    optional_scope,     \* args.optional_scope / the `optional_scope` parameter
    limit_to,           \* args.limit_to: None or a list of str
    message,            \* the commit message text / the `input` parameter
    git,                \* what subprocess.run(["git", "diff", ...]) does when run
    gitCalls,           \* number of times subprocess.run was invoked
    modified_files,     \* value returned by get_modified_filepaths
    raised,             \* exception that left the running function, or "none"
    printed,            \* what was printed, in order
    classified,         \* number of times main invoked is_conventional
    result              \* value returned by the running function

vars == <<pc, types, optional_scope, limit_to, message, git, gitCalls,
          modified_files, raised, printed, classified, result>>

None == "None"

\* args.limit_to: the argparse default None, or the list of values given
Absent == [none |-> TRUE, vals |-> <<>>]
Given(vals) == [none |-> FALSE, vals |-> vals]

(***************************************************************************)
(* Strings                                                                 *)
(***************************************************************************)
Range(s) == {s[i] : i \in DOMAIN s}

RECURSIVE Cat(_)
Cat(ss) == IF ss = <<>> THEN <<>> ELSE Head(ss) \o Cat(Tail(ss))

\* s[p:p+len(w)] == w, with p a 0-based offset
StartsAt(s, w, p) ==
    /\ p + Len(w) <= Len(s)
    /\ SubSeq(s, p + 1, p + Len(w)) = w

\* the `w in s` operator of Python
Contains(s, w) == \E p \in 0..(Len(s) - Len(w)) : StartsAt(s, w, p)

Lower == {"a", "b", "c", "d", "e", "f", "g", "h", "i", "j", "k", "l", "m",
          "n", "o", "p", "q", "r", "s", "t", "u", "v", "w", "x", "y", "z"}
Upper == {"A", "B", "C", "D", "E", "F", "G", "H", "I", "J", "K", "L", "M",
          "N", "O", "P", "Q", "R", "S", "T", "U", "V", "W", "X", "Y", "Z"}
Digit == {"0", "1", "2", "3", "4", "5", "6", "7", "8", "9"}

\* \w
WordChars == Lower \cup Upper \cup Digit \cup {"_"}
\* \s
Whitespace == {" ", "\t", "\n", "\r", "\f"}
\* [\w \/:-]
ScopeChars == WordChars \cup {" ", "/", ":", "-"}

(***************************************************************************)
(* Grammar builder                                                         *)
(***************************************************************************)
CONVENTIONAL_TYPES == << <<"f", "e", "a", "t">>, <<"f", "i", "x">> >>

T_feat == <<"f", "e", "a", "t">>
T_fix == <<"f", "i", "x">>
T_ci == <<"c", "i">>

\* "|".join(types) compiled: the offsets reached after one of the alternatives
\* matched at the start of the text
r_types(ts, m) ==
    {Len(ts[i]) : i \in {k \in DOMAIN ts : StartsAt(m, ts[k], 0)}}

\* (\([\w \/:-]+\)) matched from offset p: the offsets after the closing paren
ScopeGroup(m, p) ==
    {q \in (p + 3)..Len(m) :
        /\ m[p + 1] = "("
        /\ m[q] = ")"
        /\ \A k \in (p + 2)..(q - 1) : m[k] \in ScopeChars}

\* r_scope with the "?" appended whatever the policy
r_scope_AlwaysOptional(optional, m, P) ==
    UNION {ScopeGroup(m, p) : p \in P} \cup P

\* the scope group, followed by "?" when optional
r_scope(optional, m, P) ==
    UNION {ScopeGroup(m, p) : p \in P} \cup (IF optional THEN P ELSE {})

\* !?:
r_delim(m, P) ==
    {q \in 1..Len(m) :
        /\ m[q] = ":"
        /\ \/ q - 1 \in P
           \/ /\ q - 2 \in P
              /\ m[q - 1] = "!"}

\* " .+" under re.DOTALL: a space, then one or more of any character
r_subject(m, P) ==
    {q \in 2..Len(m) : \E p \in P : p + 2 <= q /\ m[p + 1] = " "}

\* $ without re.MULTILINE: the end, or just before a final newline
AtEnd(m, q) ==
    \/ q = Len(m)
    \/ q = Len(m) - 1 /\ m[Len(m)] = "\n"

conventional_types(ts) ==
    IF Range(ts) \cap Range(CONVENTIONAL_TYPES) = {}
    THEN CONVENTIONAL_TYPES \o ts
    ELSE ts

(***************************************************************************)
(* Special-commit detector and classifier                                  *)
(***************************************************************************)
MergedIn == <<"M", "e", "r", "g", "e", "d", " ", "i", "n", " ">>
MergeBranch == <<"M", "e", "r", "g", "e", " ", "b", "r", "a", "n", "c", "h", " ">>
merge_strings == <<MergedIn, MergeBranch>>
revert_string ==
    <<"T", "h", "i", "s", " ", "r", "e", "v", "e", "r", "t", "s", " ",
      "c", "o", "m", "m", "i", "t", " ">>

is_special_commit(input) ==
    IF \E i \in DOMAIN merge_strings : Contains(input, merge_strings[i])
    THEN TRUE
    ELSE IF Contains(input, revert_string) THEN TRUE ELSE FALSE

\* regex.match(input) for the pattern built from `ts` and `optional`
RegexMatch(input, ts, optional) ==
    \E q \in r_subject(input,
                r_delim(input,
                    r_scope(optional, input, r_types(ts, input)))) :
        AtEnd(input, q)

\* is_conventional without the early exit for special commits
is_conventional_NoEarlyExit(input, ts, optional) ==
    RegexMatch(input, conventional_types(ts), optional)

is_conventional(input, ts, optional) ==
    IF is_special_commit(input)
    THEN FALSE
    ELSE RegexMatch(input, conventional_types(ts), optional)

(***************************************************************************)
(* pathlib.Path                                                            *)
(***************************************************************************)
\* s.split(sep) for a one-character separator: empty pieces are kept
RECURSIVE Split(_, _)
Split(s, sep) ==
    IF \A i \in DOMAIN s : s[i] # sep
    THEN <<s>>
    ELSE LET i == CHOOSE k \in DOMAIN s :
                      s[k] = sep /\ \A j \in 1..(k - 1) : s[j] # sep
         IN  <<SubSeq(s, 1, i - 1)>> \o Split(SubSeq(s, i + 1, Len(s)), sep)

IsPathPart(c) == c # <<>> /\ c # <<".">>

\* Path(s): the root ("", "/" or the POSIX "//") and the components, with
\* empty and "." components dropped
Path(s) ==
    [root  |-> IF StartsAt(s, <<"/", "/">>, 0) /\ ~StartsAt(s, <<"/", "/", "/">>, 0)
               THEN "//"
               ELSE IF StartsAt(s, <<"/">>, 0) THEN "/" ELSE "",
     parts |-> SelectSeq(Split(s, "/"), IsPathPart)]

\* p.parents, as a set
Parents(p) ==
    {[root |-> p.root, parts |-> SubSeq(p.parts, 1, k)] :
        k \in 0..(Len(p.parts) - 1)}

\* str(p)
RECURSIVE JoinParts(_)
JoinParts(parts) ==
    IF parts = <<>> THEN <<>>
    ELSE IF Len(parts) = 1 THEN parts[1]
    ELSE parts[1] \o <<"/">> \o JoinParts(Tail(parts))

PathStr(p) ==
    IF p.root = "" /\ p.parts = <<>> THEN <<".">>
    ELSE (IF p.root = "//" THEN <<"/", "/">>
          ELSE IF p.root = "/" THEN <<"/">> ELSE <<>>) \o JoinParts(p.parts)

(***************************************************************************)
(* Touched-path resolver                                                   *)
(***************************************************************************)
L_modified == <<"m", "o", "d", "i", "f", "i", "e", "d", ":", " ", " ", " ">>
L_added == <<"n", "e", "w", " ", "f", "i", "l", "e", ":", " ", " ", " ">>
L_removed == <<"d", "e", "l", "e", "t", "e", "d", ":", " ", " ", " ", " ">>
L_renamed == <<"r", "e", "n", "a", "m", "e", "d", ":", " ", " ", " ", " ">>

\* the labels of status_tokens, in the dict's order
status_tokens == <<L_modified, L_added, L_removed, L_renamed>>

\* \S+ matched greedily from offset pos: the offset after the last character
RECURSIVE RunEnd(_, _)
RunEnd(s, pos) ==
    IF pos < Len(s) /\ s[pos + 1] \notin Whitespace
    THEN RunEnd(s, pos + 1)
    ELSE pos

\* re.compile(r"(?<=label)\S+").findall(s), scanning from offset pos:
\* leftmost matches, none overlapping
RECURSIVE FindAll(_, _, _)
FindAll(label, s, pos) ==
    IF pos >= Len(s) THEN <<>>
    ELSE IF /\ pos >= Len(label)
            /\ StartsAt(s, label, pos - Len(label))
            /\ s[pos + 1] \notin Whitespace
         THEN <<SubSeq(s, pos + 1, RunEnd(s, pos))>>
                  \o FindAll(label, s, RunEnd(s, pos))
         ELSE FindAll(label, s, pos + 1)

RECURSIVE MapPath(_)
MapPath(strs) ==
    IF strs = <<>> THEN <<>> ELSE <<Path(Head(strs))>> \o MapPath(Tail(strs))

\* the loop putting each category's matches in front of the earlier ones
RECURSIVE AnnotatedFiles_Prepending(_, _)
AnnotatedFiles_Prepending(regexes, input) ==
    IF regexes = <<>> THEN <<>>
    ELSE AnnotatedFiles_Prepending(Tail(regexes), input)
             \o MapPath(FindAll(Head(regexes), input, 0))

\* the loop over status_tokens.values(), extending modified_files
RECURSIVE AnnotatedFiles(_, _)
AnnotatedFiles(regexes, input) ==
    IF regexes = <<>> THEN <<>>
    ELSE MapPath(FindAll(Head(regexes), input, 0))
             \o AnnotatedFiles(Tail(regexes), input)

\* str.splitlines() for the line breaks \n, \r and \r\n
RECURSIVE SplitLines(_)
SplitLines(s) ==
    IF s = <<>> THEN <<>>
    ELSE IF \A i \in DOMAIN s : s[i] \notin {"\n", "\r"}
    THEN <<s>>
    ELSE LET i == CHOOSE k \in DOMAIN s :
                      /\ s[k] \in {"\n", "\r"}
                      /\ \A j \in 1..(k - 1) : s[j] \notin {"\n", "\r"}
             n == IF s[i] = "\r" /\ i < Len(s) /\ s[i + 1] = "\n"
                  THEN i + 1 ELSE i
         IN  <<SubSeq(s, 1, i - 1)>> \o SplitLines(SubSeq(s, n + 1, Len(s)))

\* what one run of subprocess.run(["git", "diff", ...], check=True) does:
\* it returns the output, raises CalledProcessError on a non-zero exit
\* status, or raises OSError when git cannot be executed
NoRun == [kind |-> "not_run", stdout |-> <<>>]
Completed(stdout) == [kind |-> "ok", stdout |-> stdout]
ExitNonZero == [kind |-> "CalledProcessError", stdout |-> <<>>]
NotRunnable == [kind |-> "OSError", stdout |-> <<>>]

FailedToGet == "Failed to get modified files"

\* get_modified_filepaths querying git whether or not annotations were found
get_modified_filepaths_AlwaysQueries(input, run) ==
    LET found == AnnotatedFiles(status_tokens, input)
    IN  IF run.kind = "ok"
        THEN [files |-> found \o MapPath(SplitLines(run.stdout)), calls |-> 1,
              printed |-> <<>>, raised |-> "none"]
        ELSE IF run.kind = "CalledProcessError"
        THEN [files |-> found, calls |-> 1, printed |-> <<FailedToGet>>,
              raised |-> "none"]
        ELSE [files |-> <<>>, calls |-> 1, printed |-> <<>>,
              raised |-> run.kind]

\* get_modified_filepaths(input), with `run` what git does if it is run
get_modified_filepaths(input, run) ==
    LET found == AnnotatedFiles(status_tokens, input)
    IN  IF found # <<>>
        THEN [files |-> found, calls |-> 0, printed |-> <<>>, raised |-> "none"]
        ELSE IF run.kind = "ok"
        THEN [files |-> MapPath(SplitLines(run.stdout)), calls |-> 1,
              printed |-> <<>>, raised |-> "none"]
        ELSE IF run.kind = "CalledProcessError"
        THEN [files |-> <<>>, calls |-> 1, printed |-> <<FailedToGet>>,
              raised |-> "none"]
        ELSE [files |-> <<>>, calls |-> 1, printed |-> <<>>,
              raised |-> run.kind]

(***************************************************************************)
(* Entry point                                                             *)
(***************************************************************************)
RESULT_SUCCESS == 0
RESULT_FAIL == 1

DEFAULT_TYPES ==
    <<T_ci, <<"d", "o", "c", "s">>, T_feat, T_fix, <<"r", "e", "f">>,
      <<"r", "e", "f", "a", "c", "t", "o", "r">>, <<"s", "t", "y", "l", "e">>,
      <<"t", "e", "s", "t">>, <<"m", "e", "t", "a">>,
      <<"c", "h", "o", "r", "e">> >>

BadEncoding == "[Bad commit message encoding]"
BadMessage == "[Bad commit message]"

\* `if args.limit_to:` is false for None and for the empty list
Truthy(l) == ~l.none /\ l.vals # <<>>

\* args.limit_to[0].split(",")
limited_paths(l) == Split(l.vals[1], ",")

\* the inner loop: some limited path is a parent of the file or is the file
MatchesLimit(file, limited) ==
    \E i \in DOMAIN limited :
        LET limited_path == Path(limited[i])
        IN  limited_path \in Parents(file) \/ file = limited_path

\* the outer loop: the files appended to modified_directories_for_commit_check
RECURSIVE modified_directories_for_commit_check(_, _)
modified_directories_for_commit_check(files, limited) ==
    IF files = <<>> THEN <<>>
    ELSE (IF MatchesLimit(Head(files), limited) THEN <<Head(files)>> ELSE <<>>)
             \o modified_directories_for_commit_check(Tail(files), limited)

\* the exit code returning success whatever the classifier said
MainResult_AlwaysSuccess(conventional) == RESULT_SUCCESS

\* the exit code main returns after classifying
MainResult(conventional) ==
    IF conventional THEN RESULT_SUCCESS ELSE RESULT_FAIL

(***************************************************************************)
(* Inputs                                                                  *)
(***************************************************************************)
MaxTypes == 4

TypeNames == {T_feat, T_fix, T_ci}

RECURSIVE SeqsUpTo(_, _)
SeqsUpTo(S, n) ==
    IF n = 0 THEN {<<>>}
    ELSE LET shorter == SeqsUpTo(S, n - 1)
         IN  shorter \cup {Append(s, x) : s \in shorter, x \in S}

Vocabularies == SeqsUpTo(TypeNames, MaxTypes)

(***************************************************************************)
(* conventional_types applied to a caller-supplied vocabulary              *)
(***************************************************************************)
InitTypes ==
    /\ pc = "call"
    /\ types \in Vocabularies
    /\ optional_scope = TRUE
    /\ limit_to = Absent
    /\ message = <<>>
    /\ git = NoRun
    /\ gitCalls = 0
    /\ modified_files = <<>>
    /\ raised = "none"
    /\ printed = <<>>
    /\ classified = 0
    /\ result = None

ConventionalTypes ==
    /\ pc = "call"
    /\ pc' = "return"
    /\ result' = conventional_types(types)
    /\ UNCHANGED <<types, optional_scope, limit_to, message, git, gitCalls,
                   modified_files, raised, printed, classified>>

NextTypes == ConventionalTypes

SpecTypes == InitTypes /\ [][NextTypes]_vars

\* C1: for every vocabulary V, conventional_types(V) contains both "feat"
\* and "fix".
C1_BothMandatoryTypes ==
    pc = "return" => {T_feat, T_fix} \subseteq Range(result)

(***************************************************************************)
(* is_conventional applied to a message, a vocabulary and a scope policy   *)
(***************************************************************************)
MaxBody == 1

Heads == {<<>>, T_fix, T_feat, T_ci, <<"F", "i", "x">>}
Scopes ==
    {<<>>, <<"(", "a", ")">>, <<"(", "a", "/", "b", " ", "c", ")">>,
     <<"(", ")">>, <<"(", "a">>, <<"(", "a", "!", ")">>,
     <<"(", "M", "e", "r", "g", "e", "d", " ", "i", "n", " ", "a", ")">>}
Bangs == {<<>>, <<"!">>}
Delims == {<<":", " ">>, <<":">>, <<" ">>}
Subjects ==
    {<<>>, <<"a">>, revert_string \o <<"a">>, MergedIn,
     <<"m", "e", "r", "g", "e", "d", " ", "i", "n", " ", "a">>,
     <<"M", "e", "r", "g", "e", " ", "b", "r", "a", "n", "c", "h">>}
BodyChunks == {<<"\n">>, <<"a">>, MergeBranch}

ClassifyMessages ==
    {Cat(<<h, sc, b, d, su, Cat(body)>>) :
        h \in Heads, sc \in Scopes, b \in Bangs, d \in Delims,
        su \in Subjects, body \in SeqsUpTo(BodyChunks, MaxBody)}

ClassifyVocabularies ==
    {<<>>, <<T_feat>>, <<T_ci>>, <<T_ci, T_feat>>}

InitClassify ==
    /\ pc = "call"
    /\ types \in ClassifyVocabularies
    /\ optional_scope \in BOOLEAN
    /\ limit_to = Absent
    /\ message \in ClassifyMessages
    /\ git = NoRun
    /\ gitCalls = 0
    /\ modified_files = <<>>
    /\ raised = "none"
    /\ printed = <<>>
    /\ classified = 0
    /\ result = None

IsConventional ==
    /\ pc = "call"
    /\ pc' = "return"
    /\ result' = is_conventional(message, types, optional_scope)
    /\ UNCHANGED <<types, optional_scope, limit_to, message, git, gitCalls,
                   modified_files, raised, printed, classified>>

NextClassify == IsConventional

SpecClassify == InitClassify /\ [][NextClassify]_vars

\* The three marker texts of a merge or revert commit
SpecialMarkers == {MergedIn, MergeBranch, revert_string}

\* m = prefix \o w \o suffix for some prefix and suffix
HasSubstring(m, w) ==
    \E i \in 0..Len(m) :
        /\ i + Len(w) <= Len(m)
        /\ m = SubSeq(m, 1, i) \o w \o SubSeq(m, i + Len(w) + 1, Len(m))

HasMarker(m) == \E w \in SpecialMarkers : HasSubstring(m, w)

\* a parenthesized scope: "(", one or more scope characters, ")"
IsScope(s) ==
    /\ Len(s) >= 3
    /\ s[1] = "("
    /\ s[Len(s)] = ")"
    /\ \A k \in 2..(Len(s) - 1) : s[k] \in ScopeChars

\* The whole of m is: a type of `vocabulary`, a scope (which may be absent
\* when `optional`), an optional "!", ":", one space, a non-empty remainder.
HasForm(m, vocabulary, optional) ==
    \E t \in vocabulary : \E b \in Len(t)..Len(m) : \E c \in {b, b + 1} :
        /\ StartsAt(m, t, 0)
        /\ \/ IsScope(SubSeq(m, Len(t) + 1, b))
           \/ optional /\ b = Len(t)
        /\ c + 3 <= Len(m)
        /\ c = b \/ m[c] = "!"
        /\ m[c + 1] = ":"
        /\ m[c + 2] = " "

\* The effective vocabulary of the specification: the caller's types with
\* the two mandatory types merged in.
EffectiveVocabulary(ts) == Range(ts) \cup {T_feat, T_fix}

\* C2: is_conventional(m, V, s) is true exactly when m is not a special
\* commit and the whole of m is a type of the effective vocabulary, a
\* scope (optional when s), an optional "!", ": " and a non-empty rest.
C2_ConventionalIffForm ==
    pc = "return" =>
        (result <=> (/\ ~HasMarker(message)
                     /\ HasForm(message, EffectiveVocabulary(types),
                                optional_scope)))

\* C3: a message containing one of the three markers anywhere is never
\* conventional, whatever the vocabulary and the scope policy; a message
\* containing none of them is not flagged by is_special_commit.
C3_SpecialNeverConventional ==
    pc = "return" =>
        /\ HasMarker(message) => result = FALSE
        /\ ~HasMarker(message) => ~is_special_commit(message)

\* a special commit whose text otherwise matches the grammar was classified
C3_Witness ==
    /\ pc = "return"
    /\ HasMarker(message)
    /\ HasForm(message, Range(conventional_types(types)), optional_scope)
    /\ result = FALSE

\* the type at the start of m is immediately followed by a scope
TypeFollowedByScope(m, ts) ==
    \E t \in Range(conventional_types(ts)) : \E b \in Len(t)..Len(m) :
        /\ StartsAt(m, t, 0)
        /\ IsScope(SubSeq(m, Len(t) + 1, b))

\* the offsets c of m where a type and an optional scope end and "!: " and
\* a non-empty remainder follow
BangOffsets(m, ts) ==
    {c \in 0..Len(m) :
        /\ c + 4 <= Len(m)
        /\ m[c + 1] = "!"
        /\ m[c + 2] = ":"
        /\ m[c + 3] = " "
        /\ \E t \in Range(conventional_types(ts)) :
              /\ StartsAt(m, t, 0)
              /\ Len(t) <= c
              /\ \/ Len(t) = c
                 \/ IsScope(SubSeq(m, Len(t) + 1, c))}

\* m without its character at offset c
Without(m, c) == SubSeq(m, 1, c) \o SubSeq(m, c + 2, Len(m))

\* C9: a message is conventional under the mandatory-scope policy iff it is
\* conventional under the optional-scope policy and its type is followed
\* by a scope; and under either policy a header is accepted with the "!"
\* exactly when it is accepted without it.
C9_MandatoryIffOptionalWithScope ==
    pc = "return" =>
        /\ (IF optional_scope
            THEN is_conventional(message, types, FALSE)
            ELSE result)
           <=> (/\ IF optional_scope
                   THEN result
                   ELSE is_conventional(message, types, TRUE)
                /\ TypeFollowedByScope(message, types))
        /\ \A c \in BangOffsets(message, types) :
              result = is_conventional(Without(message, c), types,
                                       optional_scope)

\* a header with "!" and no scope: accepted when the scope is optional,
\* rejected when it is mandatory
C9_Witness ==
    /\ pc = "return"
    /\ optional_scope
    /\ result = TRUE
    /\ BangOffsets(message, types) # {}
    /\ ~is_conventional(message, types, FALSE)

(***************************************************************************)
(* get_modified_filepaths applied to a message text                        *)
(***************************************************************************)
MaxChunks == 3
MaxGitLines == 2

P_a == <<"a">>
P_b == <<"b">>
P_cd == <<"c", "/", "d">>
P_bc == <<"b", "/", "c">>

\* pieces of a commit message template: status lines of the four kinds, a
\* line with another label, a label with nothing after it, a label padded
\* with one space too many
Chunks ==
    {L_modified \o P_a \o <<"\n">>,
     L_added \o P_b \o <<"\n">>,
     L_removed \o P_a \o <<"\n">>,
     L_renamed \o P_cd \o <<"\n">>,
     <<"x", ":", " ", " ", " ", "y", "\n">>,
     L_modified,
     L_modified \o <<" ", "a", "\n">>}

PathMessages == {Cat(cs) : cs \in SeqsUpTo(Chunks, MaxChunks)}

\* git prints one path per line
GitLines == {P_a \o <<"\n">>, P_bc \o <<"\n">>}
GitOutputs == {Cat(ls) : ls \in SeqsUpTo(GitLines, MaxGitLines)}
GitRuns == {Completed(out) : out \in GitOutputs} \cup {ExitNonZero, NotRunnable}

\* what git may do during a call on `input`: it matters only to a text
\* from which no annotation is collected
RunsFor(input) ==
    IF AnnotatedFiles(status_tokens, input) = <<>> THEN GitRuns ELSE {NoRun}

InitPaths ==
    /\ pc = "call"
    /\ types = <<>>
    /\ optional_scope = TRUE
    /\ limit_to = Absent
    /\ message \in PathMessages
    /\ git = NoRun
    /\ gitCalls = 0
    /\ modified_files = <<>>
    /\ raised = "none"
    /\ printed = <<>>
    /\ classified = 0
    /\ result = None

GetModifiedFilepaths ==
    /\ pc = "call"
    /\ \E run \in RunsFor(message) :
          \E r \in {get_modified_filepaths(message, run)} :
              /\ git' = IF r.calls > 0 THEN run ELSE NoRun
              /\ gitCalls' = gitCalls + r.calls
              /\ printed' = printed \o r.printed
              /\ raised' = r.raised
              /\ modified_files' = r.files
              /\ pc' = IF r.raised = "none" THEN "return" ELSE "raise"
    /\ UNCHANGED <<types, optional_scope, limit_to, message, classified,
                   result>>

NextPaths == GetModifiedFilepaths

SpecPaths == InitPaths /\ [][NextPaths]_vars

\* the offsets of s at which `label` ends and a path token starts
TokenStarts(label, s) ==
    {p \in Len(label)..(Len(s) - 1) :
        /\ StartsAt(s, label, p - Len(label))
        /\ s[p + 1] \notin Whitespace}

\* the maximal run of non-whitespace characters of s from offset p
TokenAt(s, p) ==
    LET e == CHOOSE k \in (p + 1)..Len(s) :
                  /\ \A j \in (p + 1)..k : s[j] \notin Whitespace
                  /\ k = Len(s) \/ s[k + 1] \in Whitespace
    IN  SubSeq(s, p + 1, e)

\* the elements of a set of offsets, in increasing order
RECURSIVE Ascending(_)
Ascending(S) ==
    IF S = {} THEN <<>>
    ELSE LET lo == CHOOSE x \in S : \A y \in S : x <= y
         IN  <<lo>> \o Ascending(S \ {lo})

\* the paths after `label`, in order of appearance
PathsAfter(label, s) ==
    LET at == Ascending(TokenStarts(label, s))
    IN  [i \in DOMAIN at |-> Path(TokenAt(s, at[i]))]

Annotated(s) == \E i \in DOMAIN status_tokens : TokenStarts(status_tokens[i], s) # {}

\* C6: for a text with at least one annotation the result is the path
\* tokens after the labels, one entry per occurrence: all "modified", then
\* all "new file", then all "deleted", then all "renamed", each category in
\* order of appearance.
C6_CategoryThenAppearanceOrder ==
    (pc = "return" /\ Annotated(message)) =>
        modified_files = PathsAfter(L_modified, message)
                             \o PathsAfter(L_added, message)
                             \o PathsAfter(L_removed, message)
                             \o PathsAfter(L_renamed, message)

\* a text in which a "deleted" line comes before a "modified" line and the
\* same path is listed twice
C6_Witness ==
    /\ pc = "return"
    /\ \E p \in TokenStarts(L_removed, message) :
          \E q \in TokenStarts(L_modified, message) : p < q
    /\ \E i \in DOMAIN modified_files : \E j \in DOMAIN modified_files :
          i < j /\ modified_files[i] = modified_files[j]

\* the text of the returned paths, one per line
RECURSIVE Listing(_)
Listing(paths) ==
    IF paths = <<>> THEN <<>>
    ELSE PathStr(Head(paths)) \o <<"\n">> \o Listing(Tail(paths))

AnnotationCount(s) ==
    Cardinality(TokenStarts(L_modified, s)) + Cardinality(TokenStarts(L_added, s))
        + Cardinality(TokenStarts(L_removed, s))
        + Cardinality(TokenStarts(L_renamed, s))

\* C7: git is queried iff the text has no annotation, and at most once;
\* when the query succeeds the result is the lines of its output in order;
\* when annotations were found the result holds nothing but them.
C7_FallbackIffNoAnnotation ==
    pc \in {"return", "raise"} =>
        /\ gitCalls = 1 <=> ~Annotated(message)
        /\ gitCalls <= 1
        /\ (gitCalls = 1 /\ git.kind = "ok") =>
              /\ pc = "return"
              /\ Listing(modified_files) = git.stdout
        /\ Annotated(message) =>
              /\ git = NoRun
              /\ Len(modified_files) = AnnotationCount(message)

\* a text with a label but no annotation, and a query that printed two lines
C7_Witness ==
    /\ pc = "return"
    /\ message # <<>>
    /\ gitCalls = 1
    /\ git.kind = "ok"
    /\ Len(modified_files) = 2

\* C8: if the query fails, by a non-zero exit status or because git could
\* not be run, the failure is reported, the result is empty and nothing
\* propagates out of get_modified_filepaths.
C8_QueryFailureIsContained ==
    (pc \in {"return", "raise"} /\ gitCalls = 1 /\ git.kind # "ok") =>
        /\ pc = "return"
        /\ raised = "none"
        /\ modified_files = <<>>
        /\ printed = <<FailedToGet>>

(***************************************************************************)
(* main                                                                    *)
(***************************************************************************)
MaxLimitValues == 2
MaxStatusLines == 2

MainTypes == {DEFAULT_TYPES, <<T_feat>>}

\* values of --limit-to: one path, or two paths joined by a comma
LimitValues == {<<"b">>, <<"a", ",", "b">>}
LimitTos ==
    {Absent} \cup {Given(vs) : vs \in SeqsUpTo(LimitValues, MaxLimitValues)}

MainHeaders ==
    {<<"f", "i", "x", ":", " ", "a">>,
     <<"b", "a", "d">>,
     <<"f", "e", "a", "t", "(", "s", ")", "!", ":", " ", "a">>,
     <<"f", "i", "x", ":", " ", "a", "\n"  >> \o MergeBranch \o <<"b">>}
StatusLines ==
    {<<"\n">> \o L_modified \o <<"a", "/", "f">>,
     <<"\n">> \o L_added \o <<"b", "/", "f">>,
     <<"\n">> \o L_removed \o <<"a", "b">>}
MainMessages ==
    {h \o Cat(ls) : h \in MainHeaders, ls \in SeqsUpTo(StatusLines, MaxStatusLines)}

Init ==
    /\ pc = "start"
    /\ types = <<>>
    /\ optional_scope = TRUE
    /\ limit_to = Absent
    /\ message = <<>>
    /\ git = NoRun
    /\ gitCalls = 0
    /\ modified_files = <<>>
    /\ raised = "none"
    /\ printed = <<>>
    /\ classified = 0
    /\ result = None

\* parser.parse_args(argv): SystemExit on a malformed command line
ParseArgs ==
    /\ pc = "start"
    /\ \/ /\ pc' = "return_usage"
          /\ result' = RESULT_FAIL
          /\ UNCHANGED <<types, optional_scope, limit_to>>
       \/ /\ pc' = "read"
          /\ types' \in MainTypes
          /\ optional_scope' \in BOOLEAN
          /\ limit_to' \in LimitTos
          /\ UNCHANGED result
    /\ UNCHANGED <<message, git, gitCalls, modified_files, raised, printed,
                   classified>>

\* open(args.input, encoding="utf-8").read()
ReadMessage ==
    /\ pc = "read"
    /\ \/ /\ pc' = "limit"
          /\ message' \in MainMessages
          /\ UNCHANGED <<printed, result>>
       \/ /\ pc' = "return_encoding"
          /\ printed' = Append(printed, BadEncoding)
          /\ result' = RESULT_FAIL
          /\ UNCHANGED message
    /\ UNCHANGED <<types, optional_scope, limit_to, git, gitCalls,
                   modified_files, raised, classified>>

\* the `if args.limit_to:` block
LimitTo ==
    /\ pc = "limit"
    /\ \/ /\ ~Truthy(limit_to)
          /\ pc' = "classify"
          /\ UNCHANGED <<git, gitCalls, modified_files, raised, printed, result>>
       \/ /\ Truthy(limit_to)
          /\ \E run \in RunsFor(message) :
                \E r \in {get_modified_filepaths(message, run)} :
                    /\ git' = IF r.calls > 0 THEN run ELSE NoRun
                    /\ gitCalls' = gitCalls + r.calls
                    /\ printed' = printed \o r.printed
                    /\ raised' = r.raised
                    /\ modified_files' = r.files
                    /\ IF r.raised # "none"
                       THEN pc' = "raise" /\ UNCHANGED result
                       ELSE IF modified_directories_for_commit_check(
                                   r.files, limited_paths(limit_to)) = <<>>
                       THEN pc' = "return_skipped" /\ result' = RESULT_SUCCESS
                       ELSE pc' = "classify" /\ UNCHANGED result
    /\ UNCHANGED <<types, optional_scope, limit_to, message, classified>>

\* the `if is_conventional(...)` statement
Classify ==
    /\ pc = "classify"
    /\ \E conventional \in {is_conventional(message, types, optional_scope)} :
          /\ result' = MainResult(conventional)
          /\ printed' = IF conventional THEN printed
                        ELSE Append(printed, BadMessage)
    /\ classified' = classified + 1
    /\ pc' = "return_classified"
    /\ UNCHANGED <<types, optional_scope, limit_to, message, git, gitCalls,
                   modified_files, raised>>

Next == ParseArgs \/ ReadMessage \/ LimitTo \/ Classify

Spec == Init /\ [][Next]_vars

\* main read the message and has returned or raised
Ended == pc \in {"return_skipped", "return_classified", "raise"}

\* every path configured in --limit-to: each value, split at its commas
ConfiguredPaths(l) ==
    {Path(piece) : piece \in UNION {Range(Split(l.vals[i], ",")) : i \in DOMAIN l.vals}}

\* file is dir or lies below it
Under(file, dir) ==
    /\ file.root = dir.root
    /\ Len(dir.parts) <= Len(file.parts)
    /\ SubSeq(file.parts, 1, Len(dir.parts)) = dir.parts

Skipped == pc = "return_skipped" /\ result = RESULT_SUCCESS /\ classified = 0

\* C4: with a non-empty --limit-to, main skips validation iff no touched
\* path equals or lies below any configured path, each path counting
\* whether it was given comma-joined or as a further value of the list.
C4_SkipsIffNoPathUnderAnyLimit ==
    (pc \in {"return_skipped", "return_classified"} /\ Truthy(limit_to)) =>
        (Skipped <=>
            ~\E i \in DOMAIN modified_files :
                \E dir \in ConfiguredPaths(limit_to) :
                    Under(modified_files[i], dir))

C10_EmptyTouchedPathsSkip ==
    (/\ Ended
     /\ Truthy(limit_to)
     /\ ~Annotated(message)
     /\ git.kind # "ok" \/ git.stdout = <<>>) =>
        /\ Skipped
        /\ BadMessage \notin Range(printed)

====
